---- MODULE Spec2Model ----
(***************************************************************************)
(* Model of user_interaction.py (Cat's Cradle): the dialogue catalog       *)
(* loader (load_dialogue_generator, _read_dialogue) and the selection      *)
(* engine (DialogueGenerator.get_random_message and its helpers).          *)
(*                                                                         *)
(* Strings that the code slices or case-folds (the biome name, the file    *)
(* stem) are sequences of one-character strings.  A csv cell is a token    *)
(* <<path, line, column>>; a csv file is the sequence of its lines, each   *)
(* line the sequence of its cells.                                         *)
(***************************************************************************)
EXTENDS Integers, Sequences, FiniteSets, TLC

\* ------------------------------------------------------------------ bounds
MaxFiles == 2     \* longest file_paths list handed to the loader
MaxRows == 2      \* most data rows (lines after the header) in one file
MaxQueries == 3   \* most successful get_random_message calls after a load

\* range(0, 4): the number of dialogue columns / context mappings
NumColumns == 4

\* column counts a data row of a source file may have
ColCounts == {3, 4, 5}

\* --------------------------------------------------------------- strings
UpperCase == <<"A", "C", "E", "F", "O", "R", "S", "T", "V">>
LowerCase == <<"a", "c", "e", "f", "o", "r", "s", "t", "v">>

\* str.lower() on one character
LowerChar(ch) ==
    IF \E i \in DOMAIN UpperCase : UpperCase[i] = ch
    THEN LowerCase[CHOOSE i \in DOMAIN UpperCase : UpperCase[i] = ch]
    ELSE ch

\* str.lower()
Lower(s) == [i \in DOMAIN s |-> LowerChar(s[i])]

\* members of the Biome enumeration, by member name
CAVE == <<"C", "A", "V", "E">>
FOREST == <<"F", "O", "R", "E", "S", "T">>
Biome == {CAVE, FOREST}

\* str(biome) of an Enum member: "Biome.<NAME>"
Str(biome) == <<"B", "i", "o", "m", "e", ".">> \o biome

\* biome_str = str(biome)[6:].lower()
BiomeStr(biome) == Lower(SubSeq(Str(biome), 7, Len(Str(biome))))

\* members of the Context enumeration, and a value outside it
Context == {"ENTER", "INVESTIGATE", "PREVIEW", "EXIT"}
ContextValues == Context \cup {"OTHER"}

\* ------------------------------------------------------------ file system
cave == <<"c", "a", "v", "e">>
forest == <<"f", "o", "r", "e", "s", "t">>

\* file paths: parent directory, stem, suffix
Paths ==
    { [parent |-> "a", stem |-> cave, suffix |-> ".csv"],
      [parent |-> "b", stem |-> cave, suffix |-> ".csv"],
      [parent |-> "a", stem |-> forest, suffix |-> ".csv"] }

\* Path(file_path).stem
Stem(file_path) == file_path.stem

\* the cell at line l, column c of the file at path p (line 1 is the header)
Cell(p, l, c) == <<p, l, c>>

\* the lines of a file whose l-th line has widths[l] cells
Lines(p, widths) == [l \in DOMAIN widths |-> [c \in 1..widths[l] |-> Cell(p, l, c)]]

SeqsUpTo(S, n) == UNION {[1..k -> S] : k \in 0..n}

\* ------------------------------------------------------------------ state
VARIABLES
    pc,            \* "start" | "loaded" (an engine exists) | "failed" (load raised)
    _entry,        \* DialogueGenerator._entry: biome_str -> list of _CountedMessage
    _investigate,  \* DialogueGenerator._investigate
    _preview,      \* DialogueGenerator._preview
    _exit,         \* DialogueGenerator._exit
    call,          \* the last completed call: its arguments and its outcome
    served,        \* per mapping and location: successful selections since load
    callers,       \* concurrent callers: each one's position in its query and its locals
    race           \* concurrent callers: queries begun, and whether two overlapped on a pool

vars == <<pc, _entry, _investigate, _preview, _exit, call, served, callers, race>>

MappingNames == {"_entry", "_investigate", "_preview", "_exit"}

\* the engine's four mappings, by attribute name
Catalog ==
    [_entry |-> _entry, _investigate |-> _investigate,
     _preview |-> _preview, _exit |-> _exit]

\* ----------------------------------------------------------------- loader
Range(s) == {s[i] : i \in DOMAIN s}

\* d[key] = value on a dict
DictSet(d, key, value) ==
    [k \in DOMAIN d \cup {key} |-> IF k = key THEN value ELSE d[k]]

\* the result of a call: what it raised or "ok", and the value returned
Raise(error) == [outcome |-> error, value |-> <<>>]
Return(value) == [outcome |-> "ok", value |-> value]

\* variant of ReadLines: a line of fewer than four cells is skipped
RECURSIVE ReadLinesSkipShort(_, _, _)
ReadLinesSkipShort(lines, k, dialogue_per_biome) ==
    IF k > Len(lines) THEN Return(dialogue_per_biome)
    ELSE IF Len(lines[k]) < NumColumns
         THEN ReadLinesSkipShort(lines, k + 1, dialogue_per_biome)
    ELSE ReadLinesSkipShort(lines, k + 1,
                   [i \in 1..NumColumns |-> Append(dialogue_per_biome[i], lines[k][i])])

\* for line in reader: for i in range(0, 4): dialogue_per_biome[i].append(line[i])
\* from the k-th line on; line[i] raises IndexError on a line of fewer cells
RECURSIVE ReadLines(_, _, _)
ReadLines(lines, k, dialogue_per_biome) ==
    IF k > Len(lines) THEN Return(dialogue_per_biome)
    ELSE IF Len(lines[k]) < NumColumns THEN Raise("IndexError")
    ELSE ReadLines(lines, k + 1,
                   [i \in 1..NumColumns |-> Append(dialogue_per_biome[i], lines[k][i])])

\* variant of _read_dialogue: the header line is read as a data row
_read_dialogue_with_header(lines) ==
    IF lines = <<>> THEN Raise("StopIteration")
    ELSE ReadLines(lines, 1, [i \in 1..NumColumns |-> <<>>])

\* _read_dialogue: next(reader) consumes the header (StopIteration on an
\* empty file), then every remaining line is split over four lists
_read_dialogue(lines) ==
    IF lines = <<>> THEN Raise("StopIteration")
    ELSE ReadLines(lines, 2, [i \in 1..NumColumns |-> <<>>])

\* variant of _get_initial_messages: the counters start at 1
_get_initial_messages_from_one(messages) ==
    [i \in DOMAIN messages |-> [occurrences |-> 1, message |-> messages[i]]]

\* variant of _get_initial_messages: the messages are wrapped last to first
_get_initial_messages_reversed(messages) ==
    [i \in DOMAIN messages |->
        [occurrences |-> 0, message |-> messages[Len(messages) + 1 - i]]]

\* _get_initial_messages: one _CountedMessage(0, message) per message
_get_initial_messages(messages) ==
    [i \in DOMAIN messages |-> [occurrences |-> 0, message |-> messages[i]]]

\* DialogueGenerator.__init__
DialogueGenerator(entry, investigate, preview, exit) ==
    [_entry |-> [b \in DOMAIN entry |-> _get_initial_messages(entry[b])],
     _investigate |-> [b \in DOMAIN investigate |-> _get_initial_messages(investigate[b])],
     _preview |-> [b \in DOMAIN preview |-> _get_initial_messages(preview[b])],
     _exit |-> [b \in DOMAIN exit |-> _get_initial_messages(exit[b])]]

\* variant of LoadFrom: the inner loop is range(0, 3), the exit dict stays empty
RECURSIVE LoadFromThree(_, _, _, _)
LoadFromThree(file_paths, files, k, dialogues_so_far) ==
    IF k > Len(file_paths)
    THEN Return(DialogueGenerator(dialogues_so_far[1], dialogues_so_far[2],
                                  dialogues_so_far[3], dialogues_so_far[4]))
    ELSE LET biome == Stem(file_paths[k])
             dialogues == _read_dialogue(files[file_paths[k]])
         IN  IF dialogues.outcome # "ok" THEN Raise(dialogues.outcome)
             ELSE LoadFromThree(file_paths, files, k + 1,
                           [i \in 1..NumColumns |->
                               IF i < NumColumns
                               THEN DictSet(dialogues_so_far[i], biome, dialogues.value[i])
                               ELSE dialogues_so_far[i]])

\* the loop of load_dialogue_generator from the k-th path on, then the
\* constructor call; an error of _read_dialogue propagates
RECURSIVE LoadFrom(_, _, _, _)
LoadFrom(file_paths, files, k, dialogues_so_far) ==
    IF k > Len(file_paths)
    THEN Return(DialogueGenerator(dialogues_so_far[1], dialogues_so_far[2],
                                  dialogues_so_far[3], dialogues_so_far[4]))
    ELSE LET biome == Stem(file_paths[k])
             dialogues == _read_dialogue(files[file_paths[k]])
         IN  IF dialogues.outcome # "ok" THEN Raise(dialogues.outcome)
             ELSE LoadFrom(file_paths, files, k + 1,
                           [i \in 1..NumColumns |->
                               DictSet(dialogues_so_far[i], biome, dialogues.value[i])])

\* load_dialogue_generator(file_paths), reading the file system files
load_dialogue_generator(file_paths, files) ==
    LoadFrom(file_paths, files, 1, [i \in 1..NumColumns |-> <<>>])

\* ----------------------------------------------------------------- engine
\* variant of MinScan: a later entry replaces an equal one (the last least)
RECURSIVE MinScanLast(_, _, _)
MinScanLast(messages, k, best) ==
    IF k > Len(messages) THEN best
    ELSE IF messages[k].occurrences <= messages[best].occurrences
         THEN MinScanLast(messages, k + 1, k)
         ELSE MinScanLast(messages, k + 1, best)

\* min(messages, key=lambda m: m.occurrences) as a left-to-right scan from
\* position k: the index of the first entry with the least count
RECURSIVE MinScan(_, _, _)
MinScan(messages, k, best) ==
    IF k > Len(messages) THEN best
    ELSE IF messages[k].occurrences < messages[best].occurrences
         THEN MinScan(messages, k + 1, k)
         ELSE MinScan(messages, k + 1, best)

\* variant of LeastIndex: the first entry, whatever the counts
LeastIndexFirst(messages) == 1

\* index of least = min(messages, key=...); messages is not empty
LeastIndex(messages) == MinScan(messages, 2, 1)

\* variant of Increment: the selected entry also moves to the end of the list
IncrementAndRotate(messages, least) ==
    LET counted == [messages EXCEPT ![least].occurrences = @ + 1]
    IN  SubSeq(counted, 1, least - 1) \o SubSeq(counted, least + 1, Len(counted))
            \o <<counted[least]>>

\* variant of Increment: least.occurrences += 2
IncrementByTwo(messages, least) ==
    [messages EXCEPT ![least].occurrences = @ + 2]

\* least.occurrences += 1
Increment(messages, least) ==
    [messages EXCEPT ![least].occurrences = @ + 1]

\* variant of _get_random_message_helper: an empty list answers a stock text
_get_random_message_helper_default(messages) ==
    IF messages = <<>> THEN [outcome |-> "ok", value |-> <<"...">>, messages |-> messages]
    ELSE LET least == LeastIndex(messages)
         IN  [outcome |-> "ok", value |-> messages[least].message,
              messages |-> Increment(messages, least)]

\* _get_random_message_helper: min() of an empty list raises ValueError;
\* otherwise the returned text and the list after the increment
_get_random_message_helper(messages) ==
    IF messages = <<>> THEN [outcome |-> "ValueError", value |-> <<>>, messages |-> messages]
    ELSE LET least == LeastIndex(messages)
         IN  [outcome |-> "ok", value |-> messages[least].message,
              messages |-> Increment(messages, least)]

\* variant of Dispatch: the default branch reads _entry, EXIT has its own
DispatchDefaultEntry(context) ==
    IF context = "INVESTIGATE" THEN "_investigate"
    ELSE IF context = "PREVIEW" THEN "_preview"
    ELSE IF context = "EXIT" THEN "_exit"
    ELSE "_entry"

\* variant of Dispatch: the PREVIEW branch is missing
DispatchNoPreview(context) ==
    IF context = "ENTER" THEN "_entry"
    ELSE IF context = "INVESTIGATE" THEN "_investigate"
    ELSE "_exit"

\* the if / elif / else chain of get_random_message: the attribute read
Dispatch(context) ==
    IF context = "ENTER" THEN "_entry"
    ELSE IF context = "INVESTIGATE" THEN "_investigate"
    ELSE IF context = "PREVIEW" THEN "_preview"
    ELSE "_exit"

\* variant of get_random_message: a missing key is inserted with an empty
\* list (dict.setdefault) before min() fails on it
get_random_message_setdefault(cat, biome, context) ==
    LET biome_str == BiomeStr(biome)
        name == Dispatch(context)
    IN  IF biome_str \notin DOMAIN cat[name]
        THEN [outcome |-> "ValueError", value |-> <<>>,
              catalog |-> [cat EXCEPT ![name] = DictSet(cat[name], biome_str, <<>>)]]
        ELSE LET r == _get_random_message_helper(cat[name][biome_str])
             IN  [outcome |-> r.outcome, value |-> r.value,
                  catalog |-> [cat EXCEPT ![name][biome_str] = r.messages]]

\* variant of get_random_message: the four mappings share the counters of a
\* location, so the increment shows in each of them
get_random_message_shared(cat, biome, context) ==
    LET biome_str == BiomeStr(biome)
        name == Dispatch(context)
    IN  IF biome_str \notin DOMAIN cat[name]
        THEN [outcome |-> "KeyError", value |-> <<>>, catalog |-> cat]
        ELSE LET r == _get_random_message_helper(cat[name][biome_str])
             IN  [outcome |-> r.outcome, value |-> r.value,
                  catalog |-> [m \in MappingNames |->
                      [b \in DOMAIN cat[m] |->
                          IF b = biome_str
                          THEN _get_random_message_helper(cat[m][b]).messages
                          ELSE cat[m][b]]]]

\* variant of get_random_message: a missing key falls back to some location
\* of the mapping
get_random_message_default(cat, biome, context) ==
    LET name == Dispatch(context)
        biome_str == IF BiomeStr(biome) \in DOMAIN cat[name] \/ DOMAIN cat[name] = {}
                     THEN BiomeStr(biome)
                     ELSE CHOOSE b \in DOMAIN cat[name] : TRUE
    IN  IF biome_str \notin DOMAIN cat[name]
        THEN [outcome |-> "KeyError", value |-> <<>>, catalog |-> cat]
        ELSE LET r == _get_random_message_helper(cat[name][biome_str])
             IN  [outcome |-> r.outcome, value |-> r.value,
                  catalog |-> [cat EXCEPT ![name][biome_str] = r.messages]]

\* get_random_message on the catalog cat: a missing key raises KeyError;
\* otherwise the helper's outcome and the catalog after its increment
get_random_message(cat, biome, context) ==
    LET biome_str == BiomeStr(biome)
        name == Dispatch(context)
    IN  IF biome_str \notin DOMAIN cat[name]
        THEN [outcome |-> "KeyError", value |-> <<>>, catalog |-> cat]
        ELSE LET r == _get_random_message_helper(cat[name][biome_str])
             IN  [outcome |-> r.outcome, value |-> r.value,
                  catalog |-> [cat EXCEPT ![name][biome_str] = r.messages]]

\* ---------------------------------------------------------------- actions
NoCall ==
    [op |-> "none", file_paths |-> <<>>, files |-> <<>>, biome |-> <<>>,
     context |-> "None", outcome |-> "none", value |-> <<>>]

\* no concurrent caller exists (the engine is used by one caller)
NoRace == [begun |-> 0, overlapped |-> FALSE]

Init ==
    /\ pc = "start"
    /\ _entry = <<>>
    /\ _investigate = <<>>
    /\ _preview = <<>>
    /\ _exit = <<>>
    /\ call = NoCall
    /\ served = <<>>
    /\ callers = <<>>
    /\ race = NoRace

\* the widths of the data rows of a file: at most MaxRows rows, of which at
\* most one, at any position, has fewer or more than four cells
RowWidths ==
    {w \in SeqsUpTo(ColCounts, MaxRows) :
        Cardinality({i \in DOMAIN w : w[i] # NumColumns}) <= 1}

\* the widths of the lines of a file: no line at all (an empty file), or a
\* header line of four cells followed by the data rows
Widths == {<<>>} \cup {<<NumColumns>> \o w : w \in RowWidths}

\* startup: load_dialogue_generator(file_paths) over some file contents
Load ==
    /\ pc = "start"
    /\ \E file_paths \in SeqsUpTo(Paths, MaxFiles) :
       \E widths \in [Range(file_paths) -> Widths] :
          LET files == [p \in Range(file_paths) |-> Lines(p, widths[p])]
              r == load_dialogue_generator(file_paths, files)
          IN  /\ call' = [NoCall EXCEPT !.op = "load_dialogue_generator",
                                        !.file_paths = file_paths, !.files = files,
                                        !.outcome = r.outcome]
              /\ IF r.outcome = "ok"
                 THEN /\ pc' = "loaded"
                      /\ _entry' = r.value._entry
                      /\ _investigate' = r.value._investigate
                      /\ _preview' = r.value._preview
                      /\ _exit' = r.value._exit
                      /\ served' = [q \in UNION {{<<m, b>> : b \in DOMAIN r.value[m]} :
                                                 m \in MappingNames} |-> 0]
                 ELSE /\ pc' = "failed"
                      /\ UNCHANGED <<_entry, _investigate, _preview, _exit, served>>
    /\ UNCHANGED <<callers, race>>

RECURSIVE SumOver(_, _)
SumOver(f, S) ==
    IF S = {} THEN 0
    ELSE LET x == CHOOSE y \in S : TRUE IN f[x] + SumOver(f, S \ {x})

\* successful selections since load, over all pools
TotalServed == SumOver(served, DOMAIN served)

\* a caller's get_random_message(biome, context) on the loaded engine
Query ==
    /\ pc = "loaded"
    /\ TotalServed < MaxQueries
    /\ \E biome \in Biome, context \in ContextValues :
          LET r == get_random_message(Catalog, biome, context)
          IN  /\ call' = [NoCall EXCEPT !.op = "get_random_message", !.biome = biome,
                                        !.context = context, !.outcome = r.outcome,
                                        !.value = r.value]
              /\ _entry' = r.catalog._entry
              /\ _investigate' = r.catalog._investigate
              /\ _preview' = r.catalog._preview
              /\ _exit' = r.catalog._exit
              /\ served' = IF r.outcome = "ok"
                           THEN [served EXCEPT ![<<Dispatch(context), BiomeStr(biome)>>] = @ + 1]
                           ELSE served
              /\ UNCHANGED <<pc, callers, race>>

Next == Load \/ Query

Spec == Init /\ [][Next]_vars

\* ------------------------------------------------------------- vocabulary
\* what the properties below speak about, stated independently of the
\* engine's own dispatch and name conversion

\* the mapping that holds the pools of a context
ContextMapping(context) ==
    CASE context = "ENTER" -> "_entry"
      [] context = "INVESTIGATE" -> "_investigate"
      [] context = "PREVIEW" -> "_preview"
      [] context = "EXIT" -> "_exit"

\* the location identifier of a biome
LocationOf(biome) ==
    CASE biome = CAVE -> cave
      [] biome = FOREST -> forest

\* the (mapping, location) pairs that have a pool
Pools == UNION {{<<m, b>> : b \in DOMAIN Catalog[m]} : m \in MappingNames}

IsQuery(c) == c.op = "get_random_message"
IsLoad(c) == c.op = "load_dialogue_generator"

\* the pair a completed query asked for
Asked(c) == <<ContextMapping(c.context), LocationOf(c.biome)>>

\* a completed query for one of the four contexts that returned a text
Answered(c) == IsQuery(c) /\ c.context \in Context /\ c.outcome = "ok"

\* the least occurrences value in a non-empty list
LeastCount(messages) ==
    CHOOSE n \in {messages[i].occurrences : i \in DOMAIN messages} :
        \A i \in DOMAIN messages : n <= messages[i].occurrences

\* ------------------------------------------------------------------- C1
\* C1 (balance invariant): in every pool of K >= 1 entries, after any number
\* of queries in any mix across pools, the largest and the smallest
\* occurrences value differ by at most 1.
BalanceInvariant ==
    pc = "loaded" =>
        \A q \in Pools :
            LET messages == Catalog[q[1]][q[2]]
            IN  \A i, j \in DOMAIN messages :
                    messages[i].occurrences - messages[j].occurrences <= 1

\* a pool of two entries that was queried three times
BalanceWitness ==
    /\ pc = "loaded"
    /\ \E q \in Pools :
          /\ Len(Catalog[q[1]][q[2]]) = 2
          /\ Catalog[q[1]][q[2]][1].occurrences = 2
          /\ Catalog[q[1]][q[2]][2].occurrences = 1

\* ------------------------------------------------------------------- C2
\* the j-th successful query on a pool of K entries returned the text of
\* the entry at row index (j-1) mod K
CyclingOrder ==
    Answered(call) =>
        LET messages == Catalog[Asked(call)[1]][Asked(call)[2]]
            j == served[Asked(call)]
        IN  call.value = messages[((j - 1) % Len(messages)) + 1].message

\* a successful query selected the earliest entry among those that shared
\* the least count
TieBreakStep ==
    Answered(call') =>
        LET messages == Catalog[Asked(call')[1]][Asked(call')[2]]
            after == Catalog'[Asked(call')[1]][Asked(call')[2]]
        IN  \E i \in DOMAIN messages :
                /\ after[i].occurrences # messages[i].occurrences
                /\ call'.value = messages[i].message
                /\ messages[i].occurrences = LeastCount(messages)
                /\ \A k \in 1..(i - 1) : messages[k].occurrences > LeastCount(messages)

\* C2 (deterministic tie-break and cycling): on a freshly loaded pool of K
\* entries the j-th query returns the entry at row index (j-1) mod K, so the
\* entries come back in row order, cycling; among entries that share the
\* least count the earliest in stored order is selected.
DeterministicCycling == [](CyclingOrder) /\ [][TieBreakStep]_vars

\* rows e1, e2 of one pool answered e1, e2, e1: the third answer is row 1 again
CyclingWitness ==
    /\ Answered(call)
    /\ Len(Catalog[Asked(call)[1]][Asked(call)[2]]) = 2
    /\ served[Asked(call)] = 3
    /\ call.value = Catalog[Asked(call)[1]][Asked(call)[2]][1].message

\* ------------------------------------------------------------------- C3
\* C3 (mutation isolation): a query on one (location, context) pair leaves
\* the entries of every other pair unchanged, the same location under
\* another context and the same context under another location included.
MutationIsolation ==
    [][(IsQuery(call') /\ call'.context \in Context) =>
          \A q \in Pools :
              q # Asked(call') =>
                  /\ q[2] \in DOMAIN Catalog'[q[1]]
                  /\ Catalog'[q[1]][q[2]] = Catalog[q[1]][q[2]]]_vars

\* two locations are loaded, the last query was answered from one pair, and
\* pairs of the same location and of the other location hold entries
IsolationWitness ==
    /\ Answered(call)
    /\ \E q \in Pools : q[1] = Asked(call)[1] /\ q[2] # Asked(call)[2]
                        /\ Catalog[q[1]][q[2]] # <<>>
    /\ \E q \in Pools : q[1] # Asked(call)[1] /\ q[2] = Asked(call)[2]
                        /\ Catalog[q[1]][q[2]] # <<>>

\* ------------------------------------------------------------------- C4
\* C4 (what a query returns): every successful query returns the text of an
\* entry of the queried pool whose occurrences value just before the query
\* was the least of that pool; never a text of another pool.
ReturnsLeastUsedOfPool ==
    [][Answered(call') =>
          LET messages == Catalog[Asked(call')[1]][Asked(call')[2]]
          IN  \E i \in DOMAIN messages :
                  /\ call'.value = messages[i].message
                  /\ \A k \in DOMAIN messages :
                         messages[i].occurrences <= messages[k].occurrences]_vars

\* an answered query on a pool of two entries with unequal counts before it:
\* the second entry, the only least one, was returned
ReturnsWitness ==
    /\ Answered(call)
    /\ Len(Catalog[Asked(call)[1]][Asked(call)[2]]) = 2
    /\ served[Asked(call)] = 2
    /\ call.value = Catalog[Asked(call)[1]][Asked(call)[2]][2].message

\* ------------------------------------------------------------------- C5
\* every entry of a freshly loaded engine has occurrences 0
StartsAtZero ==
    (IsLoad(call) /\ pc = "loaded") =>
        \A q \in Pools : \A i \in DOMAIN Catalog[q[1]][q[2]] :
            Catalog[q[1]][q[2]][i].occurrences = 0

NeverNegative ==
    \A q \in Pools : \A i \in DOMAIN Catalog[q[1]][q[2]] :
        Catalog[q[1]][q[2]][i].occurrences >= 0

\* a query decreases no counter; a successful one adds exactly 1 to exactly
\* one entry of the queried pool and keeps the others
CountStep ==
    IsQuery(call') =>
        /\ \A q \in Pools : \A i \in DOMAIN Catalog[q[1]][q[2]] :
               Catalog'[q[1]][q[2]][i].occurrences >= Catalog[q[1]][q[2]][i].occurrences
        /\ Answered(call') =>
               LET messages == Catalog[Asked(call')[1]][Asked(call')[2]]
                   after == Catalog'[Asked(call')[1]][Asked(call')[2]]
               IN  \E i \in DOMAIN messages :
                       /\ after[i].occurrences = messages[i].occurrences + 1
                       /\ \A k \in DOMAIN messages \ {i} : after[k] = messages[k]

\* C5 (counters): every entry starts with occurrences = 0; occurrences is
\* never negative and never decreases; each successful query increases the
\* occurrences of exactly one entry by exactly 1 and keeps every other entry
\* of the pool.
CountersOnlyGrowByOne ==
    [](StartsAtZero) /\ [](NeverNegative) /\ [][CountStep]_vars

\* an entry that was selected twice: its count went 0, 1, 2
CountersWitness ==
    /\ Answered(call)
    /\ \E i \in DOMAIN Catalog[Asked(call)[1]][Asked(call)[2]] :
           Catalog[Asked(call)[1]][Asked(call)[2]][i].occurrences = 2

\* ------------------------------------------------------------------- C6
\* C6 (unknown location): a query for a location that is absent from the
\* mapping of the requested context fails with the lookup's error (KeyError)
\* and returns no text.
UnknownLocationRaises ==
    (IsQuery(call) /\ call.context \in Context
       /\ Asked(call)[2] \notin DOMAIN Catalog[Asked(call)[1]]) =>
        /\ call.outcome = "KeyError"
        /\ call.value = <<>>

\* a location was asked for that is not loaded, while another one is
UnknownLocationWitness ==
    /\ IsQuery(call)
    /\ call.context \in Context
    /\ Asked(call)[2] \notin DOMAIN Catalog[Asked(call)[1]]
    /\ DOMAIN Catalog[Asked(call)[1]] # {}

\* ------------------------------------------------------------- the loader
\* the lines of the k-th source of a completed load
SourceLines(c, k) == c.files[c.file_paths[k]]

\* the data rows of a source: its lines after the header
DataRows(lines) == IF lines = <<>> THEN <<>> ELSE Tail(lines)

\* a source with a header row and no data row
HeaderOnly(lines) == Len(lines) = 1

\* a source with a data row of fewer than four columns
HasShortRow(lines) ==
    \E l \in DOMAIN DataRows(lines) : Len(DataRows(lines)[l]) < NumColumns

\* a source with a header row, at least one data row, and four or more
\* columns in every data row
WellFormed(lines) ==
    /\ Len(lines) >= 2
    /\ ~HasShortRow(lines)

\* no engine exists
NoEngine ==
    /\ pc # "loaded"
    /\ \A m \in MappingNames : Catalog[m] = <<>>

\* ------------------------------------------------------------------- C7
\* C7 (zero data rows): loading a source that has a header row and no data
\* row fails at load time, so no engine with an empty pool is ever returned.
HeaderOnlySourceFails ==
    /\ (IsLoad(call) /\ \E k \in DOMAIN call.file_paths : HeaderOnly(SourceLines(call, k)))
           => (call.outcome # "ok" /\ NoEngine)
    /\ pc = "loaded" => \A q \in Pools : Catalog[q[1]][q[2]] # <<>>

\* ------------------------------------------------------------------- C8
\* C8 (short row): if any data row of any source of the list has fewer than
\* four columns, the load fails with an error and no engine is constructed,
\* whichever position the source or the row has.
ShortRowFailsLoad ==
    (IsLoad(call) /\ \E k \in DOMAIN call.file_paths : HasShortRow(SourceLines(call, k)))
        => (call.outcome # "ok" /\ NoEngine)

\* the short row is the last row of the last source, after a source and a
\* row that are in order
ShortRowWitness ==
    /\ IsLoad(call)
    /\ Len(call.file_paths) = 2
    /\ WellFormed(SourceLines(call, 1))
    /\ Len(SourceLines(call, 2)) = 3
    /\ Len(SourceLines(call, 2)[2]) = NumColumns
    /\ Len(SourceLines(call, 2)[3]) < NumColumns
    /\ call.outcome = "IndexError"

\* ------------------------------------------------------------------- C9
\* the position in the list of the source a location is loaded from: the
\* last one with that stem (a later source of the same stem replaces it)
SourceOf(c, b) ==
    CHOOSE k \in DOMAIN c.file_paths :
        /\ c.file_paths[k].stem = b
        /\ \A j \in DOMAIN c.file_paths : c.file_paths[j].stem = b => j <= k

\* C9 (loader completeness): loading a list of well-formed sources gives an
\* engine in which every processed location identifier (the file stem) is a
\* key of all four mappings, each of its four pools has exactly as many
\* entries as its source has data rows (the header is no entry), and every
\* entry has occurrences = 0.
LoaderCompleteness ==
    IsLoad(call) =>
        /\ (\A k \in DOMAIN call.file_paths : WellFormed(SourceLines(call, k)))
               => pc = "loaded"
        /\ pc = "loaded" =>
               \A m \in MappingNames :
                   /\ DOMAIN Catalog[m] = {call.file_paths[k].stem : k \in DOMAIN call.file_paths}
                   /\ \A b \in DOMAIN Catalog[m] :
                          /\ Len(Catalog[m][b]) =
                                 Len(DataRows(SourceLines(call, SourceOf(call, b))))
                          /\ \A i \in DOMAIN Catalog[m][b] :
                                 Catalog[m][b][i].occurrences = 0

\* two well-formed sources of different locations, of two rows and one row
LoaderWitness ==
    /\ IsLoad(call)
    /\ pc = "loaded"
    /\ Len(call.file_paths) = 2
    /\ call.file_paths[1].stem # call.file_paths[2].stem
    /\ WellFormed(SourceLines(call, 1)) /\ WellFormed(SourceLines(call, 2))
    /\ Len(_entry[call.file_paths[1].stem]) = 2
    /\ Len(_exit[call.file_paths[2].stem]) = 1

\* ------------------------------------------------------------------ C10
\* C10 (empty pool): a query on a pair whose entry list is empty fails with
\* the error of min() on an empty list (ValueError) and returns no text.
EmptyPoolRaises ==
    (IsQuery(call) /\ call.context \in Context
       /\ Asked(call)[2] \in DOMAIN Catalog[Asked(call)[1]]
       /\ Catalog[Asked(call)[1]][Asked(call)[2]] = <<>>) =>
        /\ call.outcome = "ValueError"
        /\ call.value = <<>>

\* the empty pool of a loaded location was queried
EmptyPoolWitness ==
    /\ IsQuery(call)
    /\ call.context \in Context
    /\ Asked(call)[2] \in DOMAIN Catalog[Asked(call)[1]]
    /\ Catalog[Asked(call)[1]][Asked(call)[2]] = <<>>

\* ------------------------------------------------- concurrent callers
\* Two callers run get_random_message on one engine without a lock.  The
\* interpreter may switch callers between any two reads or writes of a
\* counter: min() reads the occurrences of one entry after the other (the
\* key function is called per entry), and least.occurrences += 1 reads the
\* counter and writes it back.
Callers == {"A", "B"}

NoResult == [outcome |-> "none", value |-> <<>>, pool |-> <<>>]

\* a caller outside get_random_message, holding what its last call gave
Idle(result) ==
    [pc |-> "idle", pool |-> <<>>, k |-> 0, best |-> 0, key |-> 0, result |-> result]

\* the engine's mappings become those of cat
SetCatalog(cat) ==
    /\ _entry' = cat._entry
    /\ _investigate' = cat._investigate
    /\ _preview' = cat._preview
    /\ _exit' = cat._exit

\* the engines a single well-formed or header-only source loads
RaceInit ==
    /\ pc = "loaded"
    /\ \E file_paths \in [1..1 -> Paths] :
       \E widths \in [Range(file_paths) -> Widths] :
          LET files == [p \in Range(file_paths) |-> Lines(p, widths[p])]
              r == load_dialogue_generator(file_paths, files)
          IN  /\ r.outcome = "ok"
              /\ _entry = r.value._entry
              /\ _investigate = r.value._investigate
              /\ _preview = r.value._preview
              /\ _exit = r.value._exit
    /\ call = NoCall
    /\ served = <<>>
    /\ callers = [t \in Callers |-> Idle(NoResult)]
    /\ race = NoRace

\* variant of Precedes: a larger count replaces the best one
Follows(key, best_key) == key > best_key

\* the comparison of min(): an entry replaces the best one so far only when
\* its key is strictly smaller
Precedes(key, best_key) == key < best_key

\* caller t enters get_random_message(biome, context): the name conversion,
\* the dispatch and the lookup (KeyError), then the start of min(): ValueError
\* on an empty list, else the key of the first entry is read
Begin(t) ==
    /\ callers[t].pc = "idle"
    /\ race.begun < MaxQueries
    /\ \E biome \in Biome, context \in ContextValues :
          LET biome_str == BiomeStr(biome)
              name == Dispatch(context)
              pool == <<name, biome_str>>
          IN  IF biome_str \notin DOMAIN Catalog[name]
              THEN /\ callers' = [callers EXCEPT ![t] =
                          Idle([outcome |-> "KeyError", value |-> <<>>, pool |-> pool])]
                   /\ UNCHANGED race
              ELSE IF Catalog[name][biome_str] = <<>>
              THEN /\ callers' = [callers EXCEPT ![t] =
                          Idle([outcome |-> "ValueError", value |-> <<>>, pool |-> pool])]
                   /\ UNCHANGED race
              ELSE /\ callers' = [callers EXCEPT ![t] =
                          [pc |-> IF Len(Catalog[name][biome_str]) = 1 THEN "load" ELSE "scan",
                           pool |-> pool, k |-> 2, best |-> 1,
                           key |-> Catalog[name][biome_str][1].occurrences,
                           result |-> NoResult]]
                   /\ race' = [begun |-> race.begun + 1,
                               overlapped |-> race.overlapped \/
                                   \E u \in Callers \ {t} :
                                       callers[u].pc # "idle" /\ callers[u].pool = pool]
    /\ UNCHANGED <<pc, _entry, _investigate, _preview, _exit, call, served>>

\* min() of caller t reads the key of the next entry and compares it with
\* the best key it holds
Scan(t) ==
    /\ callers[t].pc = "scan"
    /\ LET c == callers[t]
           messages == Catalog[c.pool[1]][c.pool[2]]
           key == messages[c.k].occurrences
       IN  callers' = [callers EXCEPT ![t] =
               [c EXCEPT !.pc = IF c.k = Len(messages) THEN "load" ELSE "scan",
                         !.k = c.k + 1,
                         !.best = IF Precedes(key, c.key) THEN c.k ELSE c.best,
                         !.key = IF Precedes(key, c.key) THEN key ELSE c.key]]
    /\ UNCHANGED <<pc, _entry, _investigate, _preview, _exit, call, served, race>>

\* least.occurrences += 1, first half: caller t reads the counter of least
LoadCount(t) ==
    /\ callers[t].pc = "load"
    /\ LET c == callers[t]
       IN  callers' = [callers EXCEPT ![t] =
               [c EXCEPT !.pc = "store",
                         !.key = Catalog[c.pool[1]][c.pool[2]][c.best].occurrences]]
    /\ UNCHANGED <<pc, _entry, _investigate, _preview, _exit, call, served, race>>

\* least.occurrences += 1, second half, and return least.message: caller t
\* writes the count it read plus 1
StoreCount(t) ==
    /\ callers[t].pc = "store"
    /\ LET c == callers[t]
           messages == Catalog[c.pool[1]][c.pool[2]]
       IN  /\ SetCatalog([Catalog EXCEPT ![c.pool[1]][c.pool[2]][c.best].occurrences = c.key + 1])
           /\ callers' = [callers EXCEPT ![t] =
                  Idle([outcome |-> "ok", value |-> messages[c.best].message,
                        pool |-> c.pool])]
    /\ UNCHANGED <<pc, call, served, race>>

RaceNext == \E t \in Callers : Begin(t) \/ Scan(t) \/ LoadCount(t) \/ StoreCount(t)

SpecRace == RaceInit /\ [][RaceNext]_vars

\* ------------------------------------------------------------------ C11
\* some pool holds two counts that differ by more than 1
BalanceViolated ==
    \E q \in Pools : \E i, j \in DOMAIN Catalog[q[1]][q[2]] :
        Catalog[q[1]][q[2]][i].occurrences - Catalog[q[1]][q[2]][j].occurrences > 1

\* C11 (race): the balance invariant can only be violated when two queries
\* overlapped on one pool (one began while the other was between its
\* find-minimum and its increment); while the queries of a pool are
\* serialized it is never violated.  The violating state itself, with both
\* callers holding the same text, is RaceWitness.
RaceNeedsOverlap == BalanceViolated => race.overlapped

\* both callers queried the same pool of two or more entries once, both
\* found the first entry before either incremented, both received its
\* text, and the pool's counts are 2 and 0: the unused entry was available
RaceWitness ==
    /\ race.begun = 2
    /\ race.overlapped
    /\ \A t \in Callers : callers[t].pc = "idle" /\ callers[t].result.outcome = "ok"
    /\ callers["A"].result = callers["B"].result
    /\ LET messages == Catalog[callers["A"].result.pool[1]][callers["A"].result.pool[2]]
       IN  /\ Len(messages) >= 2
           /\ messages[1].message = callers["A"].result.value
           /\ messages[1].occurrences = 2
           /\ messages[2].occurrences = 0
    /\ BalanceViolated

\* ------------------------------------------------------------- Dialogue
\* Python values, tagged with their class
None == [type |-> "NoneType"]
PyStr(s) == [type |-> "str", value |-> s]

\* Optional[str] values of the attributes
OptionalStr == {None, PyStr("a"), PyStr("b")}

\* Dialogue(title, message, image_path)
Dialogue(title, message, image_path) ==
    [type |-> "Dialogue", title |-> title, message |-> message, image_path |-> image_path]

Dialogues == {Dialogue(t, m, i) : t \in OptionalStr, m \in OptionalStr, i \in OptionalStr}

\* values that are no Dialogue: None, a str, and an object of another class
\* that has the three attributes
NonDialogues ==
    {None, PyStr("a")} \cup
    {[type |-> "Embed", title |-> t, message |-> PyStr("a"), image_path |-> None] :
        t \in OptionalStr}

\* isinstance(__value, Dialogue)
IsDialogue(value) == value.type = "Dialogue"

\* variant of __eq__: image_path is not compared
__eq__without_image(self, value) ==
    IF IsDialogue(value)
    THEN self.title = value.title /\ self.message = value.message
    ELSE FALSE

\* Dialogue.__eq__(self, __value)
__eq__(self, value) ==
    IF IsDialogue(value)
    THEN self.title = value.title /\ self.message = value.message
         /\ self.image_path = value.image_path
    ELSE FALSE

\* a caller evaluates self == value on a Dialogue self
Compare ==
    /\ \E self \in Dialogues, value \in Dialogues \cup NonDialogues :
          call' = [op |-> "__eq__", self |-> self, other |-> value,
                   outcome |-> "ok", value |-> __eq__(self, value)]
    /\ UNCHANGED <<pc, _entry, _investigate, _preview, _exit, served, callers, race>>

DialogueNext == Compare

SpecDialogue == Init /\ [][DialogueNext]_vars

\* ------------------------------------------------------------------ C13
\* C13 (Dialogue equality): two Dialogues compare equal if and only if their
\* title, message and image_path are pairwise equal; comparison with a value
\* that is no Dialogue is false; the relation is reflexive and symmetric.
DialogueEquality ==
    call.op = "__eq__" =>
        /\ call.other \in Dialogues =>
               /\ call.value <=> /\ call.self.title = call.other.title
                                 /\ call.self.message = call.other.message
                                 /\ call.self.image_path = call.other.image_path
               /\ call.value <=> __eq__(call.other, call.self)
        /\ call.other \notin Dialogues => call.value = FALSE
        /\ call.other = call.self => call.value = TRUE

\* two Dialogues that differ in image_path only compared unequal
DialogueWitness ==
    /\ call.op = "__eq__"
    /\ call.other \in Dialogues
    /\ call.self.title = call.other.title
    /\ call.self.message = call.other.message
    /\ call.self.image_path # call.other.image_path
    /\ call.value = FALSE

\* ------------------------------------------------------------------ C14
\* the column of a source row that a mapping holds (column 0 is the first)
ColumnOf(m) ==
    CASE m = "_entry" -> 1
      [] m = "_investigate" -> 2
      [] m = "_preview" -> 3
      [] m = "_exit" -> 4

\* C14 (column mapping and row order): for every loaded location and every
\* data-row index r, the r-th entry of the entry, investigate, preview and
\* exit pools holds exactly column 0, 1, 2 and 3 of data row r of the
\* location's source; the header row is no entry and columns beyond the
\* fourth are in no pool.
ColumnMapping ==
    (IsLoad(call) /\ pc = "loaded") =>
        \A q \in Pools :
            LET rows == DataRows(SourceLines(call, SourceOf(call, q[2])))
                messages == Catalog[q[1]][q[2]]
            IN  /\ DOMAIN messages = DOMAIN rows
                /\ \A r \in DOMAIN rows : messages[r].message = rows[r][ColumnOf(q[1])]

\* a loaded source of two data rows, the second of five columns
ColumnWitness ==
    /\ IsLoad(call)
    /\ pc = "loaded"
    /\ Len(call.file_paths) = 1
    /\ Len(SourceLines(call, 1)) = 3
    /\ Len(SourceLines(call, 1)[3]) > NumColumns
    /\ Len(_preview[call.file_paths[1].stem]) = 2

\* ------------------------------------------------------------------ C15
\* C15 (same locations in all four mappings): in every state reached by a
\* load and any queries after it, successful or failing, the four mappings
\* have the same set of location identifiers.
SameLocations ==
    pc = "loaded" =>
        \A m1, m2 \in MappingNames : DOMAIN Catalog[m1] = DOMAIN Catalog[m2]

\* two locations are loaded, a query was answered and the last one failed
SameLocationsWitness ==
    /\ pc = "loaded"
    /\ IsQuery(call)
    /\ call.outcome # "ok"
    /\ TotalServed >= 1
    /\ Cardinality(DOMAIN _entry) = 2

\* ------------------------------------------------------------------ C16
\* C16 (what a query leaves alone): no query adds or removes a location in
\* any mapping, and no query changes the length, the order or the text of
\* the entries of any pool, the queried one included; only counters change.
QueryKeepsTexts ==
    [][IsQuery(call') =>
          \A m \in MappingNames :
              /\ DOMAIN Catalog'[m] = DOMAIN Catalog[m]
              /\ \A b \in DOMAIN Catalog[m] :
                     /\ DOMAIN Catalog'[m][b] = DOMAIN Catalog[m][b]
                     /\ \A i \in DOMAIN Catalog[m][b] :
                            Catalog'[m][b][i].message = Catalog[m][b][i].message]_vars

\* the first entry of a pool of two was selected and the second was not yet
QueryKeepsTextsWitness ==
    /\ Answered(call)
    /\ Len(Catalog[Asked(call)[1]][Asked(call)[2]]) = 2
    /\ Catalog[Asked(call)[1]][Asked(call)[2]][1].occurrences = 1
    /\ Catalog[Asked(call)[1]][Asked(call)[2]][2].occurrences = 0

\* ------------------------------------------------------------------ C17
RECURSIVE SumOccurrences(_, _)
SumOccurrences(messages, k) ==
    IF k > Len(messages) THEN 0
    ELSE messages[k].occurrences + SumOccurrences(messages, k + 1)

\* C17 (closed form of the counters): in every reachable state of an engine
\* used by one caller, the occurrences of a pool add up to the number N of
\* successful queries made on it since load, and the entry at index i
\* (from 0) of a pool of K entries has floor(N/K) + (1 if i < N mod K else 0).
CountersClosedForm ==
    pc = "loaded" =>
        \A q \in Pools :
            LET messages == Catalog[q[1]][q[2]]
                N == served[q]
                K == Len(messages)
            IN  /\ SumOccurrences(messages, 1) = N
                /\ \A i \in DOMAIN messages :
                       messages[i].occurrences =
                           (N \div K) + (IF i - 1 < N % K THEN 1 ELSE 0)

\* a pool of two entries after three queries: floor(3/2) + 1 and floor(3/2)
ClosedFormWitness ==
    /\ pc = "loaded"
    /\ \E q \in Pools :
          /\ served[q] = 3
          /\ Len(Catalog[q[1]][q[2]]) = 2
          /\ Catalog[q[1]][q[2]][1].occurrences = 2

\* ------------------------------------------------------------------ C18
\* C18 (failing query): a query that fails, for an unknown location or an
\* empty pool, leaves the whole catalog unchanged: every counter of every
\* pool keeps its value, so the next valid query answers as if the failing
\* one had not been made.
FailedQueryChangesNothing ==
    [][(IsQuery(call') /\ call'.outcome # "ok") =>
          /\ Catalog' = Catalog
          /\ served' = served
          /\ pc' = pc]_vars

\* a query failed on an engine that had answered one before
FailedQueryWitness ==
    /\ IsQuery(call)
    /\ call.outcome \in {"KeyError", "ValueError"}
    /\ TotalServed >= 1

\* ------------------------------------------------------------------ C19
\* the mapping a context value selects from: the one of its name for ENTER,
\* INVESTIGATE and PREVIEW, the exit mapping for every other value
Selected(context) ==
    CASE context = "ENTER" -> "_entry"
      [] context = "INVESTIGATE" -> "_investigate"
      [] context = "PREVIEW" -> "_preview"
      [] OTHER -> "_exit"

\* C19 (context dispatch): ENTER selects from the entry mapping, INVESTIGATE
\* from investigate, PREVIEW from preview, and every other context value,
\* EXIT or a value outside the four contexts, selects from the exit mapping
\* and increments a counter there, without an error.
DefaultBranchIsExit ==
    [][(IsQuery(call') /\ LocationOf(call'.biome) \in DOMAIN Catalog[Selected(call'.context)]
          /\ Catalog[Selected(call'.context)][LocationOf(call'.biome)] # <<>>) =>
          LET messages == Catalog[Selected(call'.context)][LocationOf(call'.biome)]
              after == Catalog'[Selected(call'.context)][LocationOf(call'.biome)]
          IN  /\ call'.outcome = "ok"
              /\ \E i \in DOMAIN messages :
                     /\ call'.value = messages[i].message
                     /\ after[i].occurrences = messages[i].occurrences + 1]_vars

\* a context value outside the four was answered with a text of the exit pool
DefaultBranchWitness ==
    /\ IsQuery(call)
    /\ call.context \notin Context
    /\ call.outcome = "ok"
    /\ \E i \in DOMAIN _exit[LocationOf(call.biome)] :
           /\ _exit[LocationOf(call.biome)][i].message = call.value
           /\ _exit[LocationOf(call.biome)][i].occurrences = 1

====
